---- MODULE Spec2Model ----
(***************************************************************************)
(* Price-time-priority order matching engine                               *)
(* (src/src/internal/entity/orderbook.go).                                 *)
(*                                                                         *)
(* Go pointers are modelled as addresses: *Order and *Limit values are     *)
(* natural numbers indexing the heaps `orders` and `limits`; 0 is nil.     *)
(* Sizes, volumes and prices are float64 in the source.  The model draws   *)
(* them from small sets of non-negative integers; float64 represents these *)
(* exactly and adds/subtracts them without rounding, so integer arithmetic *)
(* is what the program computes on these inputs.                           *)
(***************************************************************************)
EXTENDS Integers, Sequences, FiniteSets, TLC

\* ------------------------------------------------------------------ bounds
\* Number of orders NewOrder may create in one behaviour.
MaxOrders == 4
\* Limit order sizes are drawn from 0..MaxSize.
MaxSize == 2
\* Limit prices are drawn from 1..MaxPrice.
MaxPrice == 3
\* Market order sizes are drawn from 0..MaxMarketSize where levels are swept.
MaxMarketSize == 3
\* Request handlers that may run at the same time.
MaxHandlers == 2
\* Requests one handler serves when handlers run at the same time.
MaxRequests == 2

\* ------------------------------------------------------- program constants
BID_ORDER == "BID"
ASK_ORDER == "ASK"
\* Any OrderPlacement string other than the two recognised ones.
OTHER_ORDER == "OTHER"
MarketETH == "ETH"
\* A second book: NewOrderBook accepts any market name.
MarketBTC == "BTC"
ErrNotFound == "not found"
ErrInvalidPlacement == "invalid order placement"
ErrNotEnoughAsk == "PlaceMarketOrder: not enough ask volume in the market"
ErrNotEnoughBid == "PlaceMarketOrder: not enough bid volume in the market"
\* A nil error.
Nil == "nil"

Markets == {MarketETH, MarketBTC}
Placements == {BID_ORDER, ASK_ORDER, OTHER_ORDER}

\* The callers of one behaviour: the books they created, the placements their
\* limit orders and their market orders carry, the sizes of their limit orders
\* and of their market orders, the prices of their limit orders, by how much
\* the clock may advance between two limit orders (0: two orders read the same
\* time), and how many orders they create.
Env(markets, limitPlacements, marketPlacements, sizes, marketSizes, prices, ticks, maxOrders) ==
    [markets |-> markets, limitPlacements |-> limitPlacements,
     marketPlacements |-> marketPlacements, sizes |-> sizes,
     marketSizes |-> marketSizes, prices |-> prices, ticks |-> ticks,
     maxOrders |-> maxOrders]

Envs ==
    { \* asks on several price levels, swept by market bids
      Env({MarketETH}, {ASK_ORDER}, {BID_ORDER}, 1..MaxSize, 1..MaxMarketSize,
          1..MaxPrice, {1}, MaxOrders),
      \* bids on several price levels, swept by market asks
      Env({MarketETH}, {BID_ORDER}, {ASK_ORDER}, 1..MaxSize, 1..MaxMarketSize,
          1..MaxPrice, {1}, MaxOrders),
      \* asks on one price level, some reading the same time
      Env({MarketETH}, {ASK_ORDER}, {BID_ORDER}, 0..MaxSize, 0..MaxSize,
          {1}, {0, 1}, MaxOrders),
      \* bids on one price level, some reading the same time
      Env({MarketETH}, {BID_ORDER}, {ASK_ORDER}, 0..MaxSize, 0..MaxSize,
          {1}, {0, 1}, MaxOrders),
      \* both sides on two price levels, unrecognised placements
      Env({MarketETH}, Placements, Placements, 0..1, 0..1, 1..2, {1}, MaxOrders - 1),
      \* two books
      Env(Markets, {BID_ORDER, ASK_ORDER}, {BID_ORDER, ASK_ORDER}, 1..MaxSize,
          1..MaxSize, {1}, {1}, MaxOrders - 1) }

VARIABLES
    orders,          \* heap of Order objects: address -> Order
    limits,          \* heap of Limit objects: address -> Limit
    orderBooks,      \* market name -> OrderBook
    OrderIndex,      \* order id -> OrderMetadata
    orderIdSequence, \* the id counter
    now,             \* last value read from time.Now().UnixNano()
    env,             \* the inputs the callers of this behaviour draw from
    last,            \* the last call: its arguments and what it returned
    handlers         \* the request handlers: where each is in its request, its locals

vars == <<orders, limits, orderBooks, OrderIndex, orderIdSequence, now, env, last,
          handlers>>

\* ----------------------------------------------------------------- helpers
min(a, b) == IF a < b THEN a ELSE b

Range(s) == {s[i] : i \in 1..Len(s)}

\* The smallest address not in use: where the runtime allocates a new object.
Alloc(heap) == CHOOSE a \in 1..(Cardinality(DOMAIN heap) + 1) : a \notin DOMAIN heap

\* delete(m, k) on a Go map.
MapDelete(m, k) == [x \in (DOMAIN m) \ {k} |-> m[x]]

\* m[k] = v on a Go map.
MapPut(m, k, v) == [x \in (DOMAIN m) \cup {k} |-> IF x = k THEN v ELSE m[x]]

\* m[k] on a Go map of pointers: nil when the key is absent.
MapGet(m, k) == IF k \in DOMAIN m THEN m[k] ELSE 0

\* s[i], s[j] = s[j], s[i]
Swap(s, i, j) == [s EXCEPT ![i] = s[j], ![j] = s[i]]

\* sort.Sort on a slice shorter than 12 elements is an insertion sort:
\*   for i := 1; i < n; i++ { for j := i; j > 0 && Less(j, j-1); j-- { Swap(j, j-1) } }
\* Less(j, j-1) is key[s[j]] < key[s[j-1]].
RECURSIVE InsertionInner(_, _, _)
InsertionInner(s, j, key) ==
    IF j > 1 /\ key[s[j]] < key[s[j - 1]]
    THEN InsertionInner(Swap(s, j, j - 1), j - 1, key)
    ELSE s

RECURSIVE InsertionSort(_, _, _)
InsertionSort(s, i, key) ==
    IF i > Len(s) THEN s
    ELSE InsertionSort(InsertionInner(s, i, key), i + 1, key)

\* -------------------------------------------------------------- Order, Limit
\* The state the operations work on, as one record.
World == [orders |-> orders, limits |-> limits, orderBooks |-> orderBooks,
          OrderIndex |-> OrderIndex]

\* NewOrder: increments orderIdSequence and allocates an Order carrying the new
\* id and the current time.  `id` is the incremented counter, `ts` the time read.
NewOrder(w, addr, id, orderPlacement, size, ts) ==
    [w EXCEPT !.orders = MapPut(@, addr,
        [ID |-> id, OrderPlacement |-> orderPlacement, Size |-> size,
         Limit |-> 0, Timestamp |-> ts])]

IsFilled(o) == o.Size = 0

\* Orders.Less orders by Timestamp.
OrdersKey(w) == [a \in DOMAIN w.orders |-> w.orders[a].Timestamp]

\* sort.Sort(l.Orders)
SortOrders(w, q) == InsertionSort(q, 2, OrdersKey(w))

\* NewLimit
NewLimit(w, addr, price) ==
    [w EXCEPT !.limits = MapPut(@, addr,
        [Price |-> price, Orders |-> <<>>, TotalVolume |-> 0])]

\* Limit.AddOrder
AddOrder(w, l, o) ==
    [w EXCEPT !.orders[o].Limit = l,
              !.limits[l].Orders = Append(@, o),
              !.limits[l].TotalVolume = @ + w.orders[o].Size]

\* The first index of q holding x, 0 when there is none.
IndexOf(q, x) ==
    IF \E i \in 1..Len(q) : q[i] = x
    THEN CHOOSE i \in 1..Len(q) : q[i] = x /\ \A j \in 1..(i - 1) : q[j] # x
    ELSE 0

\* q[i] = q[len(q)-1]; q = q[:len(q)-1]
SwapRemove(q, i) == SubSeq([q EXCEPT ![i] = q[Len(q)]], 1, Len(q) - 1)

\* Limit.DeleteOrder
DeleteOrder(w, l, o) ==
    LET q == w.limits[l].Orders
        i == IndexOf(q, o)
        q1 == IF i = 0 THEN q ELSE SwapRemove(q, i)
        w1 == [w EXCEPT !.orders[o].Limit = 0,
                        !.limits[l].TotalVolume = @ - w.orders[o].Size]
    IN  [w1 EXCEPT !.limits[l].Orders = SortOrders(w1, q1)]

\* Limit.fillOrder without the decrement of the Limit's TotalVolume.
fillOrderKeepVolume(w, l, matchingOrder, order) ==
    LET isBid == w.orders[order].OrderPlacement = BID_ORDER
        ask == IF isBid THEN matchingOrder ELSE order
        bid == IF isBid THEN order ELSE matchingOrder
        sizeFilled == min(w.orders[ask].Size, w.orders[bid].Size)
        w1 == [w EXCEPT !.orders[ask].Size = @ - sizeFilled]
    IN  [w |-> [w1 EXCEPT !.orders[bid].Size = @ - sizeFilled],
         match |-> [Ask |-> ask, Bid |-> bid, SizeFilled |-> sizeFilled,
                    Price |-> w.limits[l].Price]]

\* Limit.fillOrder with the two roles exchanged: the incoming bid recorded as
\* the Ask and the resting ask as the Bid.
fillOrderSwapped(w, l, matchingOrder, order) ==
    LET isBid == w.orders[order].OrderPlacement = BID_ORDER
        ask == IF isBid THEN order ELSE matchingOrder
        bid == IF isBid THEN matchingOrder ELSE order
        sizeFilled == min(w.orders[ask].Size, w.orders[bid].Size)
        w1 == [w EXCEPT !.orders[ask].Size = @ - sizeFilled]
        w2 == [w1 EXCEPT !.orders[bid].Size = @ - sizeFilled]
    IN  [w |-> [w2 EXCEPT !.limits[l].TotalVolume = @ - sizeFilled],
         match |-> [Ask |-> ask, Bid |-> bid, SizeFilled |-> sizeFilled,
                    Price |-> w.limits[l].Price]]

\* Limit.fillOrder: returns the world after the trade and the Match.
fillOrder(w, l, matchingOrder, order) ==
    LET isBid == w.orders[order].OrderPlacement = BID_ORDER
        ask == IF isBid THEN matchingOrder ELSE order
        bid == IF isBid THEN order ELSE matchingOrder
        sizeFilled == min(w.orders[ask].Size, w.orders[bid].Size)
        w1 == [w EXCEPT !.orders[ask].Size = @ - sizeFilled]
        w2 == [w1 EXCEPT !.orders[bid].Size = @ - sizeFilled]
    IN  [w |-> [w2 EXCEPT !.limits[l].TotalVolume = @ - sizeFilled],
         match |-> [Ask |-> ask, Bid |-> bid, SizeFilled |-> sizeFilled,
                    Price |-> w.limits[l].Price]]

\* Limit.Fill, first loop, one iteration after fillOrder returned r: the order
\* matched is queued for deletion when filled, and the loop breaks when the
\* incoming order is filled.
RECURSIVE FillLoop(_, _, _, _, _, _, _)
FillStep(r, l, q, i, order, matches, ordersToDelete) ==
    LET m1 == Append(matches, r.match)
        d1 == IF IsFilled(r.w.orders[q[i]])
              THEN Append(ordersToDelete, q[i]) ELSE ordersToDelete
    IN  IF IsFilled(r.w.orders[order])
        THEN [w |-> r.w, matches |-> m1, ordersToDelete |-> d1]
        ELSE FillLoop(r.w, l, q, i + 1, order, m1, d1)

\* Limit.Fill, first loop, over the queue q as it stood at loop entry.
FillLoop(w, l, q, i, order, matches, ordersToDelete) ==
    IF i > Len(q)
    THEN [w |-> w, matches |-> matches, ordersToDelete |-> ordersToDelete]
    ELSE FillStep(fillOrder(w, l, q[i], order), l, q, i, order, matches, ordersToDelete)

\* Limit.Fill, second loop.
RECURSIVE DeleteLoop(_, _, _, _)
DeleteLoop(w, l, ordersToDelete, i) ==
    IF i > Len(ordersToDelete) THEN w
    ELSE DeleteLoop(DeleteOrder(w, l, ordersToDelete[i]), l, ordersToDelete, i + 1)

\* Limit.Fill returning after its first loop: the filled orders stay queued.
FillDeleteSkipped(f, l) == [w |-> f.w, matches |-> f.matches]

\* Limit.Fill, from the end of the first loop (its outcome is f) to the return.
FillDelete(f, l) ==
    [w |-> DeleteLoop(f.w, l, f.ordersToDelete, 1), matches |-> f.matches]

\* Limit.Fill: returns the world after the fills and the matches.
Fill(w, l, order) ==
    FillDelete(FillLoop(w, l, w.limits[l].Orders, 1, order, <<>>, <<>>), l)

\* ------------------------------------------------------------------ OrderBook
\* NewOrderBook
NewOrderBook(market) ==
    [Market |-> market, asks |-> <<>>, bids |-> <<>>,
     AskLimits |-> <<>>, BidLimits |-> <<>>]

\* The loop of OrderBook.AskTotalVolume / BidTotalVolume over a slice of Limits.
RECURSIVE SumVolume(_, _, _)
SumVolume(w, s, i) ==
    IF i > Len(s) THEN 0 ELSE w.limits[s[i]].TotalVolume + SumVolume(w, s, i + 1)

\* OrderBook.AskTotalVolume
AskTotalVolume(w, mk) == SumVolume(w, w.orderBooks[mk].asks, 1)

\* OrderBook.BidTotalVolume
BidTotalVolume(w, mk) == SumVolume(w, w.orderBooks[mk].bids, 1)

\* ByBestAsk.Less orders by ascending Price.
ByBestAsk(w) == [l \in DOMAIN w.limits |-> w.limits[l].Price]

\* ByBestBid.Less written like ByBestAsk.Less: ascending Price.
ByBestBidAscending(w) == [l \in DOMAIN w.limits |-> w.limits[l].Price]

\* ByBestBid.Less orders by descending Price.
ByBestBid(w) == [l \in DOMAIN w.limits |-> 0 - w.limits[l].Price]

\* OrderBook.Asks without the sort: the slice in insertion order.
AsksUnsorted(w, mk) == w

\* OrderBook.Asks: sorts ob.asks in place; the result is the book's slice.
Asks(w, mk) ==
    [w EXCEPT !.orderBooks[mk].asks = InsertionSort(@, 2, ByBestAsk(w))]

\* OrderBook.Bids: sorts ob.bids in place; the result is the book's slice.
Bids(w, mk) ==
    [w EXCEPT !.orderBooks[mk].bids = InsertionSort(@, 2, ByBestBid(w))]

\* The loop of OrderBook.deleteLimit over one side's slice.  It has no break and
\* re-reads the slice's length on every iteration.
RECURSIVE deleteLimitLoop(_, _, _)
deleteLimitLoop(s, limit, i) ==
    IF i > Len(s) THEN s
    ELSE IF s[i] = limit THEN deleteLimitLoop(SwapRemove(s, i), limit, i + 1)
    ELSE deleteLimitLoop(s, limit, i + 1)

\* OrderBook.deleteLimit without the delete from the price map.
deleteLimitKeepMap(w, mk, limitPlacement, limit) ==
    IF limitPlacement = BID_ORDER
    THEN [w EXCEPT !.orderBooks[mk].bids = deleteLimitLoop(@, limit, 1)]
    ELSE [w EXCEPT !.orderBooks[mk].asks = deleteLimitLoop(@, limit, 1)]

\* OrderBook.deleteLimit
deleteLimit(w, mk, limitPlacement, limit) ==
    IF limitPlacement = BID_ORDER
    THEN [w EXCEPT !.orderBooks[mk].BidLimits = MapDelete(@, w.limits[limit].Price),
                   !.orderBooks[mk].bids = deleteLimitLoop(@, limit, 1)]
    ELSE [w EXCEPT !.orderBooks[mk].AskLimits = MapDelete(@, w.limits[limit].Price),
                   !.orderBooks[mk].asks = deleteLimitLoop(@, limit, 1)]

\* if limit.TotalVolume == 0 { ob.deleteLimit(placement, limit) }
DeleteIfEmpty(w, mk, placement, limit) ==
    IF w.limits[limit].TotalVolume = 0 THEN deleteLimit(w, mk, placement, limit) ELSE w

\* The slice of one side of a book.
SideSlice(w, mk, placement) ==
    IF placement = BID_ORDER THEN w.orderBooks[mk].bids ELSE w.orderBooks[mk].asks

\* A range loop that would re-read the book's slice, and so its length, on
\* every iteration.
BackingLive(vis, back) == vis

\* What a range loop over a side's slice reads after the book's slice changed:
\* range fixed the length at loop entry and reads element i of the backing array
\* when it gets there, while deleteLimit writes into the same array and only
\* shortens the book's slice.  `vis` is the book's slice now, `back` the array.
Backing(vis, back) == vis \o SubSeq(back, Len(vis) + 1, Len(back))

\* OrderBook.PlaceMarketOrder, range loop, the end of one iteration: w is the
\* world after Fill and deleteLimit.
RECURSIVE MarketLoop(_, _, _, _, _, _, _)
MarketNext(w, mk, side, back, i, order, matches) ==
    IF IsFilled(w.orders[order])
    THEN [w |-> w, matches |-> matches]
    ELSE MarketLoop(w, mk, side, Backing(SideSlice(w, mk, side), back), i + 1,
                    order, matches)

\* OrderBook.PlaceMarketOrder, range loop, one iteration after Fill returned f.
MarketStep(f, mk, side, back, i, order, matches) ==
    MarketNext(DeleteIfEmpty(f.w, mk, side, back[i]), mk, side, back, i, order,
               matches \o f.matches)

\* OrderBook.PlaceMarketOrder, range loop over the opposing side's Limits.
MarketLoop(w, mk, side, back, i, order, matches) ==
    IF i > Len(back) THEN [w |-> w, matches |-> matches]
    ELSE MarketStep(Fill(w, back[i], order), mk, side, back, i, order, matches)

\* OrderBook.PlaceMarketOrder after the admission check: w is the world after
\* Asks()/Bids() sorted the opposing side, whose placement is `side`.
MarketSweep(w, mk, side, order) ==
    MarketLoop(w, mk, side, SideSlice(w, mk, side), 1, order, <<>>)

\* The values PlaceMarketOrder returns when it accepts the order: r is the
\* outcome of the range loop.
MarketAccepted(r) ==
    [w |-> r.w, matches |-> r.matches, err |-> Nil, errAsks |-> 0, errBids |-> 0]

\* OrderBook.PlaceMarketOrder without the admission check.
PlaceMarketOrderNoCheck(w, mk, order) ==
    IF w.orders[order].OrderPlacement = BID_ORDER
    THEN MarketAccepted(MarketSweep(Asks(w, mk), mk, ASK_ORDER, order))
    ELSE MarketAccepted(MarketSweep(Bids(w, mk), mk, BID_ORDER, order))

\* OrderBook.PlaceMarketOrder with the ask branch's error built like the bid
\* branch's: the available volume first, the order's size second.
PlaceMarketOrderSwappedReport(w, mk, order) ==
    IF w.orders[order].OrderPlacement = BID_ORDER
    THEN IF w.orders[order].Size > AskTotalVolume(w, mk)
         THEN [w |-> w, matches |-> <<>>, err |-> ErrNotEnoughAsk,
               errAsks |-> AskTotalVolume(w, mk), errBids |-> w.orders[order].Size]
         ELSE MarketAccepted(MarketSweep(Asks(w, mk), mk, ASK_ORDER, order))
    ELSE IF w.orders[order].Size > BidTotalVolume(w, mk)
         THEN [w |-> w, matches |-> <<>>, err |-> ErrNotEnoughBid,
               errAsks |-> BidTotalVolume(w, mk), errBids |-> w.orders[order].Size]
         ELSE MarketAccepted(MarketSweep(Bids(w, mk), mk, BID_ORDER, order))

\* OrderBook.PlaceMarketOrder: the world after the call, the matches and the
\* error returned (with the two volumes the error message reports).
PlaceMarketOrder(w, mk, order) ==
    IF w.orders[order].OrderPlacement = BID_ORDER
    THEN IF w.orders[order].Size > AskTotalVolume(w, mk)
         THEN [w |-> w, matches |-> <<>>, err |-> ErrNotEnoughAsk,
               errAsks |-> AskTotalVolume(w, mk), errBids |-> w.orders[order].Size]
         ELSE MarketAccepted(MarketSweep(Asks(w, mk), mk, ASK_ORDER, order))
    ELSE IF w.orders[order].Size > BidTotalVolume(w, mk)
         THEN [w |-> w, matches |-> <<>>, err |-> ErrNotEnoughBid,
               errAsks |-> w.orders[order].Size, errBids |-> BidTotalVolume(w, mk)]
         ELSE MarketAccepted(MarketSweep(Bids(w, mk), mk, BID_ORDER, order))

\* OrderBook.PlaceLimitOrder, the creation of a Limit at a price that has none.
CreateLimit(w, mk, placement, price, limit) ==
    IF placement = BID_ORDER
    THEN [NewLimit(w, limit, price) EXCEPT
              !.orderBooks[mk].bids = Append(@, limit),
              !.orderBooks[mk].BidLimits = MapPut(@, price, limit)]
    ELSE [NewLimit(w, limit, price) EXCEPT
              !.orderBooks[mk].asks = Append(@, limit),
              !.orderBooks[mk].AskLimits = MapPut(@, price, limit)]

\* OrderBook.PlaceLimitOrder without the write to OrderIndex.
AddWithoutIndex(w, mk, limit, order) == AddOrder(w, limit, order)

\* OrderBook.PlaceLimitOrder, from limit.AddOrder to the return.
AddAndIndex(w, mk, limit, order) ==
    [AddOrder(w, limit, order) EXCEPT
         !.OrderIndex = MapPut(@, w.orders[order].ID,
                               [Order |-> order, Market |-> w.orderBooks[mk].Market])]

\* OrderBook.PlaceLimitOrder rejecting an unrecognised placement only after the
\* insertion, which treats it like an ask.
PlaceLimitOrderLateCheck(w, mk, price, order) ==
    LET placement == w.orders[order].OrderPlacement
        found == IF placement = BID_ORDER
                 THEN MapGet(w.orderBooks[mk].BidLimits, price)
                 ELSE MapGet(w.orderBooks[mk].AskLimits, price)
    IN  [w |-> IF found = 0
               THEN AddAndIndex(CreateLimit(w, mk, placement, price, Alloc(w.limits)),
                                mk, Alloc(w.limits), order)
               ELSE AddAndIndex(w, mk, found, order),
         matches |-> <<>>,
         err |-> IF placement \notin {BID_ORDER, ASK_ORDER}
                 THEN ErrInvalidPlacement ELSE Nil,
         errAsks |-> 0, errBids |-> 0]

\* OrderBook.PlaceLimitOrder trading like a market order when the opposing side
\* holds a Limit the order's price reaches: an ask at or below a bid's price, a
\* bid at or above an ask's price.
PlaceLimitOrderCrossing(w, mk, price, order) ==
    LET placement == w.orders[order].OrderPlacement
        found == IF placement = BID_ORDER
                 THEN MapGet(w.orderBooks[mk].BidLimits, price)
                 ELSE MapGet(w.orderBooks[mk].AskLimits, price)
    IN  IF placement \notin {BID_ORDER, ASK_ORDER}
        THEN [w |-> w, matches |-> <<>>, err |-> ErrInvalidPlacement,
              errAsks |-> 0, errBids |-> 0]
        ELSE IF placement = BID_ORDER
                /\ \E l \in Range(w.orderBooks[mk].asks) : w.limits[l].Price <= price
        THEN PlaceMarketOrderNoCheck(w, mk, order)
        ELSE IF placement = ASK_ORDER
                /\ \E l \in Range(w.orderBooks[mk].bids) : w.limits[l].Price >= price
        THEN PlaceMarketOrderNoCheck(w, mk, order)
        ELSE [w |-> IF found = 0
                    THEN AddAndIndex(CreateLimit(w, mk, placement, price, Alloc(w.limits)),
                                     mk, Alloc(w.limits), order)
                    ELSE AddAndIndex(w, mk, found, order),
              matches |-> <<>>, err |-> Nil, errAsks |-> 0, errBids |-> 0]

\* OrderBook.PlaceLimitOrder: the world after the call and the error returned.
PlaceLimitOrder(w, mk, price, order) ==
    LET placement == w.orders[order].OrderPlacement
        found == IF placement = BID_ORDER
                 THEN MapGet(w.orderBooks[mk].BidLimits, price)
                 ELSE MapGet(w.orderBooks[mk].AskLimits, price)
    IN  IF placement \notin {BID_ORDER, ASK_ORDER}
        THEN [w |-> w, matches |-> <<>>, err |-> ErrInvalidPlacement,
              errAsks |-> 0, errBids |-> 0]
        ELSE [w |-> IF found = 0
                    THEN AddAndIndex(CreateLimit(w, mk, placement, price, Alloc(w.limits)),
                                     mk, Alloc(w.limits), order)
                    ELSE AddAndIndex(w, mk, found, order),
              matches |-> <<>>, err |-> Nil, errAsks |-> 0, errBids |-> 0]

\* The loops of OrderBook.CancelOrderByID stopping after the first Limit.
RECURSIVE FindOrderFirstLimit(_, _, _, _, _)
FindOrderFirstLimit(w, s, i, j, orderId) ==
    IF i > Len(s) THEN <<0, 0>>
    ELSE IF j > Len(w.limits[s[i]].Orders) THEN <<0, 0>>
    ELSE IF w.orders[w.limits[s[i]].Orders[j]].ID = orderId
         THEN <<s[i], w.limits[s[i]].Orders[j]>>
    ELSE FindOrderFirstLimit(w, s, i, j + 1, orderId)

\* The nested range loops of OrderBook.CancelOrderByID: the first (limit, order)
\* in slice order whose order carries the id; <<0, 0>> when there is none.
RECURSIVE FindOrder(_, _, _, _, _)
FindOrder(w, s, i, j, orderId) ==
    IF i > Len(s) THEN <<0, 0>>
    ELSE IF j > Len(w.limits[s[i]].Orders) THEN FindOrder(w, s, i + 1, 1, orderId)
    ELSE IF w.orders[w.limits[s[i]].Orders[j]].ID = orderId
         THEN <<s[i], w.limits[s[i]].Orders[j]>>
    ELSE FindOrder(w, s, i, j + 1, orderId)

\* OrderBook.CancelOrderByID, the body of the `if order.ID == orderId`, up to
\* the delete from OrderIndex.
DeleteAndUnindex(w, limit, order) ==
    [DeleteOrder(w, limit, order) EXCEPT !.OrderIndex = MapDelete(@, w.orders[order].ID)]

\* OrderBook.CancelOrderByID: the world after the call and the error returned.
CancelOrderByID(w, mk, orderId, orderPlacement) ==
    LET hit == FindOrder(w, SideSlice(w, mk, orderPlacement), 1, 1, orderId)
    IN  IF hit[1] = 0
        THEN [w |-> w, matches |-> <<>>, err |-> ErrNotFound,
              errAsks |-> 0, errBids |-> 0]
        ELSE [w |-> DeleteIfEmpty(DeleteAndUnindex(w, hit[1], hit[2]), mk,
                                  orderPlacement, hit[1]),
              matches |-> <<>>, err |-> Nil, errAsks |-> 0, errBids |-> 0]

\* ------------------------------------------------------------- reachability
\* The Limits a book holds in a slice or a price map.
BookLimits(w) ==
    UNION {Range(w.orderBooks[mk].asks) \cup Range(w.orderBooks[mk].bids)
           \cup {w.orderBooks[mk].AskLimits[p] : p \in DOMAIN w.orderBooks[mk].AskLimits}
           \cup {w.orderBooks[mk].BidLimits[p] : p \in DOMAIN w.orderBooks[mk].BidLimits}
           : mk \in DOMAIN w.orderBooks}

\* The objects reachable from the Orders os and the Limits ls.
RECURSIVE Reach(_, _, _)
Reach(w, os, ls) ==
    LET ls1 == ls \cup ({w.orders[o].Limit : o \in os} \ {0})
        os1 == os \cup UNION {Range(w.limits[l].Orders) : l \in ls1}
    IN  IF os1 = os /\ ls1 = ls THEN [orders |-> os, limits |-> ls]
        ELSE Reach(w, os1, ls1)

\* The Orders a call's result holds: the order passed in and those of the matches.
ResultOrders(order, matches) ==
    ({order} \ {0}) \cup {matches[i].Ask : i \in 1..Len(matches)}
                    \cup {matches[i].Bid : i \in 1..Len(matches)}

\* The heaps restricted to the objects in r: the garbage collector reclaims
\* the others.
Restrict(w, r) ==
    [w EXCEPT !.orders = [a \in r.orders |-> w.orders[a]],
              !.limits = [a \in r.limits |-> w.limits[a]]]

\* The heaps hold the objects reachable from the books, OrderIndex and the
\* result of the last call.
Collect(w, order, matches) ==
    Restrict(w, Reach(w, ResultOrders(order, matches)
                         \cup {w.OrderIndex[id].Order : id \in DOMAIN w.OrderIndex},
                      BookLimits(w)))

\* ------------------------------------------------------------------- actions
\* A handler between two requests, having served `served` of them.
IdleHandler(served) ==
    [pc |-> "idle", op |-> "none", market |-> MarketETH, placement |-> BID_ORDER,
     size |-> 0, price |-> 0, tmp |-> 0, order |-> 0, found |-> 0, orderId |-> 0,
     err |-> Nil, matches |-> <<>>, served |-> served]

\* The next state is the world c; `last` records the call and what it returned.
\* The call ran from entry to return with no other handler running.
Store(c, call, r) ==
    /\ handlers' = handlers
    /\ orders' = c.orders
    /\ limits' = c.limits
    /\ orderBooks' = c.orderBooks
    /\ OrderIndex' = c.OrderIndex
    /\ last' = [op |-> call.op, market |-> call.market, order |-> call.order,
                orderId |-> call.orderId, placement |-> call.placement,
                size |-> call.size, price |-> call.price, err |-> r.err,
                matches |-> r.matches, errAsks |-> r.errAsks, errBids |-> r.errBids]

\* A call returned r.
Commit(call, r) == Store(Collect(r.w, call.order, r.matches), call, r)

Call(op, mk, order, orderId, placement, size, price) ==
    [op |-> op, market |-> mk, order |-> order, orderId |-> orderId,
     placement |-> placement, size |-> size, price |-> price]

Init ==
    /\ orders = <<>>
    /\ limits = <<>>
    /\ env \in Envs
    /\ orderBooks = [mk \in env.markets |-> NewOrderBook(mk)]
    /\ OrderIndex = <<>>
    /\ orderIdSequence = 0
    /\ now = 0
    /\ handlers = [h \in 1..MaxHandlers |-> IdleHandler(0)]
    /\ last = [op |-> "init", market |-> MarketETH, order |-> 0, orderId |-> 0,
               placement |-> BID_ORDER, size |-> 0, price |-> 0, err |-> Nil,
               matches |-> <<>>, errAsks |-> 0, errBids |-> 0]

\* A limit order request: NewOrder, then OrderBook.PlaceLimitOrder.
PlaceLimit(mk, placement, size, price, ts) ==
    /\ orderIdSequence < env.maxOrders
    /\ orderIdSequence' = orderIdSequence + 1
    /\ now' = ts
    /\ UNCHANGED env
    /\ Commit(Call("PlaceLimitOrder", mk, Alloc(orders), orderIdSequence + 1,
                   placement, size, price),
              PlaceLimitOrder(NewOrder(World, Alloc(orders), orderIdSequence + 1,
                                       placement, size, ts),
                              mk, price, Alloc(orders)))

\* A market order request: NewOrder, then OrderBook.PlaceMarketOrder.
PlaceMarket(mk, placement, size, ts) ==
    /\ orderIdSequence < env.maxOrders
    /\ orderIdSequence' = orderIdSequence + 1
    /\ now' = ts
    /\ UNCHANGED env
    /\ Commit(Call("PlaceMarketOrder", mk, Alloc(orders), orderIdSequence + 1,
                   placement, size, 0),
              PlaceMarketOrder(NewOrder(World, Alloc(orders), orderIdSequence + 1,
                                        placement, size, ts),
                               mk, Alloc(orders)))

\* OrderBook.CancelOrderByID called on any book with any id and side.  Of this
\* call `last` records the error returned only.
Cancel(mk, orderId, placement) ==
    /\ UNCHANGED <<orderIdSequence, now, env>>
    /\ Commit(Call("CancelOrderByID", MarketETH, 0, 0, BID_ORDER, 0, 0),
              CancelOrderByID(World, mk, orderId, placement))

Next ==
    \/ \E mk \in DOMAIN orderBooks, placement \in env.limitPlacements,
          size \in env.sizes, price \in env.prices, tick \in env.ticks :
          PlaceLimit(mk, placement, size, price, now + tick)
    \/ \E mk \in DOMAIN orderBooks, placement \in env.marketPlacements,
          size \in env.marketSizes :
          PlaceMarket(mk, placement, size, now)
    \/ \E mk \in DOMAIN orderBooks, orderId \in 1..orderIdSequence,
          placement \in env.limitPlacements \cup env.marketPlacements :
          Cancel(mk, orderId, placement)

Spec == Init /\ [][Next]_vars

\* The price map of one side of a book.
SideMap(w, mk, side) ==
    IF side = BID_ORDER THEN w.orderBooks[mk].BidLimits ELSE w.orderBooks[mk].AskLimits

\* The side a market order of the given placement matches against.
Opposing(placement) == IF placement = BID_ORDER THEN ASK_ORDER ELSE BID_ORDER

\* The total volume of one side of a book.
SideVolume(w, mk, side) ==
    IF side = BID_ORDER THEN BidTotalVolume(w, mk) ELSE AskTotalVolume(w, mk)

\* Exchange.handleCancelOrder: the id is looked up in OrderIndex (an id absent
\* from it is answered "order id not found" before any call), then
\* CancelOrderByID is called on the book of the entry's market with the
\* placement of the entry's order.
HandleCancel(orderId) ==
    /\ orderId \in DOMAIN OrderIndex
    /\ OrderIndex[orderId].Market \in DOMAIN orderBooks
    /\ UNCHANGED <<orderIdSequence, now, env>>
    /\ Commit(Call("handleCancelOrder", OrderIndex[orderId].Market, 0, orderId,
                   orders[OrderIndex[orderId].Order].OrderPlacement, 0, 0),
              CancelOrderByID(World, OrderIndex[orderId].Market, orderId,
                              orders[OrderIndex[orderId].Order].OrderPlacement))

\* The callers place limit orders and cancel orders by id, each with its own
\* book and side; no market order is placed.
NextLimitCancel ==
    \/ \E mk \in DOMAIN orderBooks, placement \in env.limitPlacements,
          size \in env.sizes, price \in env.prices, tick \in env.ticks :
          PlaceLimit(mk, placement, size, price, now + tick)
    \/ \E orderId \in 1..orderIdSequence : HandleCancel(orderId)

SpecLimitCancel == Init /\ [][NextLimitCancel]_vars

\* Exchange.handleGetBook: reads both total volumes, then ranges over
\* orderBook.Asks() and orderBook.Bids(), which sort the book's slices in place.
GetBook(mk) ==
    /\ UNCHANGED <<orderIdSequence, now, env>>
    /\ Commit(Call("handleGetBook", mk, 0, 0, BID_ORDER, 0, 0),
              [w |-> Bids(Asks(World, mk), mk), matches |-> <<>>, err |-> Nil,
               errAsks |-> 0, errBids |-> 0])

\* The callers place limit and market orders, cancel orders and read the book.
NextBook ==
    \/ \E mk \in DOMAIN orderBooks, placement \in env.limitPlacements,
          size \in env.sizes, price \in env.prices, tick \in env.ticks :
          PlaceLimit(mk, placement, size, price, now + tick)
    \/ \E mk \in DOMAIN orderBooks, placement \in env.marketPlacements,
          size \in env.marketSizes :
          PlaceMarket(mk, placement, size, now)
    \/ \E orderId \in 1..orderIdSequence : HandleCancel(orderId)
    \/ \E mk \in DOMAIN orderBooks : GetBook(mk)

SpecBook == Init /\ [][NextBook]_vars

\* A caller of the entity package calls DeleteOrder on the Limit at `price` of
\* one side of a book with an order o that is not in that Limit's queue: o
\* rests in another Limit.
DeleteAbsentOrder(mk, side, price, o) ==
    /\ price \in DOMAIN SideMap(World, mk, side)
    /\ o \in DOMAIN orders
    /\ orders[o].Limit # 0
    /\ o \notin Range(limits[SideMap(World, mk, side)[price]].Orders)
    /\ UNCHANGED <<orderIdSequence, now, env>>
    /\ Commit(Call("DeleteOrder", mk, o, orders[o].ID, side, orders[o].Size, price),
              [w |-> DeleteOrder(World, SideMap(World, mk, side)[price], o),
               matches |-> <<>>, err |-> Nil, errAsks |-> 0, errBids |-> 0])

\* The callers place limit orders and call DeleteOrder with orders of other
\* Limits.
NextDeleteOrder ==
    \/ \E mk \in DOMAIN orderBooks, placement \in env.limitPlacements,
          size \in env.sizes, price \in env.prices, tick \in env.ticks :
          PlaceLimit(mk, placement, size, price, now + tick)
    \/ \E mk \in DOMAIN orderBooks, side \in {BID_ORDER, ASK_ORDER},
          price \in env.prices, o \in DOMAIN orders :
          DeleteAbsentOrder(mk, side, price, o)

SpecDeleteOrder == Init /\ [][NextDeleteOrder]_vars

\* ------------------------------------------------- handlers running together
\* The HTTP server runs each request's handler in a goroutine of its own, and
\* neither the handlers nor the entity package take a lock.  The steps below
\* are the handlers' accesses to the shared state, interleaved in any order;
\* every step is one the unsynchronised code can take, and the code can take
\* finer ones.
\* Asks of size 1 at one price, market bids of size 1.
EnvConcurrent ==
    Env({MarketETH}, {ASK_ORDER}, {BID_ORDER}, {1}, {1}, {1}, {1},
        MaxHandlers * MaxRequests)

InitConcurrent ==
    /\ orders = <<>>
    /\ limits = <<>>
    /\ env = EnvConcurrent
    /\ orderBooks = [mk \in env.markets |-> NewOrderBook(mk)]
    /\ OrderIndex = <<>>
    /\ orderIdSequence = 0
    /\ now = 0
    /\ handlers = [h \in 1..MaxHandlers |-> IdleHandler(0)]
    /\ last = [op |-> "init", market |-> MarketETH, order |-> 0, orderId |-> 0,
               placement |-> BID_ORDER, size |-> 0, price |-> 0, err |-> Nil,
               matches |-> <<>>, errAsks |-> 0, errBids |-> 0]

\* The shared objects become those of world w.
SetWorld(w) ==
    /\ orders' = w.orders
    /\ limits' = w.limits
    /\ orderBooks' = w.orderBooks
    /\ OrderIndex' = w.OrderIndex

\* handlePlaceOrder decodes a request, finds the book and enters NewOrder, which
\* reads orderIdSequence for `orderIdSequence += 1`.
StartOrder(h, op, mk, placement, size, price) ==
    /\ handlers[h].pc = "idle"
    /\ handlers[h].served < MaxRequests
    /\ handlers' = [handlers EXCEPT ![h] =
          [IdleHandler(@.served + 1) EXCEPT !.pc = "NewOrderWrite", !.op = op,
              !.market = mk, !.placement = placement, !.size = size,
              !.price = price, !.tmp = orderIdSequence]]
    /\ UNCHANGED <<orders, limits, orderBooks, OrderIndex, orderIdSequence, now, env, last>>

\* NewOrder writes the incremented value back to orderIdSequence.
NewOrderWrite(h) ==
    /\ handlers[h].pc = "NewOrderWrite"
    /\ orderIdSequence' = handlers[h].tmp + 1
    /\ handlers' = [handlers EXCEPT ![h].pc = "NewOrderAlloc"]
    /\ UNCHANGED <<orders, limits, orderBooks, OrderIndex, now, env, last>>

\* NewOrder builds the Order.  Its ID is the value this handler wrote or, read
\* again from orderIdSequence, the value another handler has written since.
NewOrderAlloc(h, id) ==
    /\ handlers[h].pc = "NewOrderAlloc"
    /\ id \in {handlers[h].tmp + 1, orderIdSequence}
    /\ SetWorld(NewOrder(World, Alloc(orders), id, handlers[h].placement,
                         handlers[h].size, now + 1))
    /\ now' = now + 1
    /\ handlers' = [handlers EXCEPT ![h].order = Alloc(orders),
          ![h].pc = IF handlers[h].op = "PlaceLimitOrder"
                    THEN "PlaceLimitLookup" ELSE "PlaceMarketCheck"]
    /\ UNCHANGED <<orderIdSequence, env, last>>

\* PlaceLimitOrder reads the price map of the order's side.
PlaceLimitLookup(h) ==
    /\ handlers[h].pc = "PlaceLimitLookup"
    /\ handlers' = [handlers EXCEPT
          ![h].found = MapGet(SideMap(World, handlers[h].market, handlers[h].placement),
                              handlers[h].price),
          ![h].err = IF handlers[h].placement \in {BID_ORDER, ASK_ORDER}
                     THEN Nil ELSE ErrInvalidPlacement,
          ![h].pc = IF handlers[h].placement \in {BID_ORDER, ASK_ORDER}
                    THEN "PlaceLimitAdd" ELSE "Return"]
    /\ UNCHANGED <<orders, limits, orderBooks, OrderIndex, orderIdSequence, now, env, last>>

\* PlaceLimitOrder creates the Limit if the lookup found none, adds the order
\* and writes OrderIndex.
PlaceLimitAdd(h) ==
    /\ handlers[h].pc = "PlaceLimitAdd"
    /\ SetWorld(IF handlers[h].found = 0
                THEN AddAndIndex(CreateLimit(World, handlers[h].market,
                                             handlers[h].placement, handlers[h].price,
                                             Alloc(limits)),
                                 handlers[h].market, Alloc(limits), handlers[h].order)
                ELSE AddAndIndex(World, handlers[h].market, handlers[h].found,
                                 handlers[h].order))
    /\ handlers' = [handlers EXCEPT ![h].pc = "Return"]
    /\ UNCHANGED <<orderIdSequence, now, env, last>>

\* PlaceMarketOrder compares the order's size with the opposing total volume.
PlaceMarketCheck(h) ==
    /\ handlers[h].pc = "PlaceMarketCheck"
    /\ handlers' = [handlers EXCEPT
          ![h].err = IF orders[handlers[h].order].Size
                          > SideVolume(World, handlers[h].market,
                                       Opposing(handlers[h].placement))
                     THEN (IF handlers[h].placement = BID_ORDER
                           THEN ErrNotEnoughAsk ELSE ErrNotEnoughBid)
                     ELSE Nil,
          ![h].pc = IF orders[handlers[h].order].Size
                          > SideVolume(World, handlers[h].market,
                                       Opposing(handlers[h].placement))
                    THEN "Return" ELSE "PlaceMarketSweep"]
    /\ UNCHANGED <<orders, limits, orderBooks, OrderIndex, orderIdSequence, now, env, last>>

\* PlaceMarketOrder sorts the opposing side and runs its loop over it.
PlaceMarketSweep(h) ==
    /\ handlers[h].pc = "PlaceMarketSweep"
    /\ SetWorld(PlaceMarketOrderNoCheck(World, handlers[h].market, handlers[h].order).w)
    /\ handlers' = [handlers EXCEPT
          ![h].matches = PlaceMarketOrderNoCheck(World, handlers[h].market,
                                                 handlers[h].order).matches,
          ![h].pc = "Return"]
    /\ UNCHANGED <<orderIdSequence, now, env, last>>

\* handleCancelOrder finds the id in OrderIndex and the entry's book.
StartCancel(h, orderId) ==
    /\ handlers[h].pc = "idle"
    /\ handlers[h].served < MaxRequests
    /\ orderId \in DOMAIN OrderIndex
    /\ OrderIndex[orderId].Market \in DOMAIN orderBooks
    /\ handlers' = [handlers EXCEPT ![h] =
          [IdleHandler(@.served + 1) EXCEPT !.pc = "CancelCall",
              !.op = "CancelOrderByID", !.market = OrderIndex[orderId].Market,
              !.order = OrderIndex[orderId].Order, !.orderId = orderId]]
    /\ UNCHANGED <<orders, limits, orderBooks, OrderIndex, orderIdSequence, now, env, last>>

\* handleCancelOrder calls CancelOrderByID with the placement of the entry's order.
CancelCall(h) ==
    /\ handlers[h].pc = "CancelCall"
    /\ SetWorld(CancelOrderByID(World, handlers[h].market, handlers[h].orderId,
                                orders[handlers[h].order].OrderPlacement).w)
    /\ handlers' = [handlers EXCEPT
          ![h].err = CancelOrderByID(World, handlers[h].market, handlers[h].orderId,
                                     orders[handlers[h].order].OrderPlacement).err,
          ![h].placement = orders[handlers[h].order].OrderPlacement,
          ![h].pc = "Return"]
    /\ UNCHANGED <<orderIdSequence, now, env, last>>

\* The handler answers its request.
Return(h) ==
    /\ handlers[h].pc = "Return"
    /\ last' = [op |-> handlers[h].op, market |-> handlers[h].market,
                order |-> handlers[h].order, orderId |-> handlers[h].orderId,
                placement |-> handlers[h].placement, size |-> handlers[h].size,
                price |-> handlers[h].price, err |-> handlers[h].err,
                matches |-> handlers[h].matches, errAsks |-> 0, errBids |-> 0]
    /\ handlers' = [handlers EXCEPT ![h] = IdleHandler(@.served)]
    /\ UNCHANGED <<orders, limits, orderBooks, OrderIndex, orderIdSequence, now, env>>

NextConcurrent ==
    \E h \in 1..MaxHandlers :
       \/ \E mk \in DOMAIN orderBooks, placement \in env.limitPlacements,
             size \in env.sizes, price \in env.prices :
             StartOrder(h, "PlaceLimitOrder", mk, placement, size, price)
       \/ \E mk \in DOMAIN orderBooks, placement \in env.marketPlacements,
             size \in env.marketSizes :
             StartOrder(h, "PlaceMarketOrder", mk, placement, size, 0)
       \/ NewOrderWrite(h)
       \/ \E id \in {handlers[h].tmp + 1, orderIdSequence} : NewOrderAlloc(h, id)
       \/ PlaceLimitLookup(h)
       \/ PlaceLimitAdd(h)
       \/ PlaceMarketCheck(h)
       \/ PlaceMarketSweep(h)
       \/ \E orderId \in DOMAIN OrderIndex : StartCancel(h, orderId)
       \/ CancelCall(h)
       \/ Return(h)

SpecConcurrent == InitConcurrent /\ [][NextConcurrent]_vars

\* ===================================================================== claims
\* The state after the step.
WorldNext == [orders |-> orders', limits |-> limits', orderBooks |-> orderBooks',
              OrderIndex |-> OrderIndex']

\* The Limits in the ask or bid slice of some book.
SliceLimits(w) ==
    UNION {Range(w.orderBooks[mk].asks) \cup Range(w.orderBooks[mk].bids)
           : mk \in DOMAIN w.orderBooks}

\* The Orders resting in a Limit of some book.
Resting(w) == UNION {Range(w.limits[l].Orders) : l \in SliceLimits(w)}

\* The sum of the residual sizes of the orders of queue q.
RECURSIVE SumSizes(_, _, _)
SumSizes(w, q, i) ==
    IF i > Len(q) THEN 0 ELSE w.orders[q[i]].Size + SumSizes(w, q, i + 1)

\* The sum of SizeFilled over a list of matches.
RECURSIVE SumFilled(_, _)
SumFilled(matches, i) ==
    IF i > Len(matches) THEN 0 ELSE matches[i].SizeFilled + SumFilled(matches, i + 1)

\* The resting order of a match of the last market order.
RestingOf(m) == IF last.placement = BID_ORDER THEN m.Ask ELSE m.Bid

\* The last call was a market order that was accepted.
MarketAcceptedLast == last.op = "PlaceMarketOrder" /\ last.err = Nil

\* The book-visible part of a world: the books, their Limits, the resting
\* orders and the identity index.
Visible(w) ==
    [orderBooks |-> w.orderBooks,
     limits |-> [l \in BookLimits(w) |-> w.limits[l]],
     orders |-> [o \in Resting(w) |-> w.orders[o]],
     OrderIndex |-> w.OrderIndex]

\* C1: every Limit in the ask or bid slice of a book has TotalVolume equal to
\* the sum of the residual sizes of the orders in its queue.
C1_VolumeInvariant ==
    \A l \in SliceLimits(World) :
        limits[l].TotalVolume = SumSizes(World, limits[l].Orders, 1)

\* C1 witness: a market order has partly filled an order that still rests in a
\* Limit holding another order as well.
C1_Witness ==
    /\ MarketAcceptedLast
    /\ \E i \in 1..Len(last.matches) : \E l \in SliceLimits(World) :
          /\ last.matches[i].SizeFilled > 0
          /\ RestingOf(last.matches[i]) \in Range(limits[l].Orders)
          /\ Len(limits[l].Orders) >= 2

\* C2: a market order whose size exceeds the opposing side's total volume is
\* rejected with an error and no matches, and leaves the books, every Limit,
\* every resting order, the order passed in, both total volumes and the
\* identity index as they were.
C2_AtomicRejection ==
    [][(/\ last'.op = "PlaceMarketOrder"
        /\ last'.size > SideVolume(World, last'.market, Opposing(last'.placement)))
       => /\ last'.err # Nil
          /\ last'.matches = <<>>
          /\ Visible(WorldNext) = Visible(World)
          /\ orders'[last'.order].Size = last'.size
          /\ AskTotalVolume(WorldNext, last'.market) = AskTotalVolume(World, last'.market)
          /\ BidTotalVolume(WorldNext, last'.market) = BidTotalVolume(World, last'.market)
      ]_vars

\* C2 witness: a market order was rejected while the opposing side held volume.
C2_Witness ==
    /\ last.op = "PlaceMarketOrder"
    /\ last.err # Nil
    /\ SideVolume(World, last.market, Opposing(last.placement)) > 0
    /\ last.size > SideVolume(World, last.market, Opposing(last.placement))

\* price a is strictly better than price b on the given side.
Better(side, a, b) == IF side = ASK_ORDER THEN a < b ELSE a > b

\* C3: an accepted market order returns its matches in price priority (ask
\* prices never decrease for a market bid, bid prices never increase for a
\* market ask), and no Limit priced strictly better than a Limit it touched
\* is left on the opposing side.
C3_PricePriority ==
    MarketAcceptedLast =>
        /\ \A i \in 1..Len(last.matches) : \A j \in 1..Len(last.matches) :
              i < j => ~Better(Opposing(last.placement), last.matches[j].Price,
                               last.matches[i].Price)
        /\ \A i \in 1..Len(last.matches) :
              \A l \in Range(SideSlice(World, last.market, Opposing(last.placement))) :
                 ~Better(Opposing(last.placement), limits[l].Price,
                         last.matches[i].Price)

\* C3 witness: an accepted market order swept three price levels, and the first
\* two were deleted from the slice while the loop ran over it.
C3_Witness ==
    /\ MarketAcceptedLast
    /\ Cardinality({last.matches[i].Price : i \in 1..Len(last.matches)}) >= 3

\* C4: of two orders resting in the same Limit, a market order does not reduce
\* the one placed later while the one placed earlier keeps a residual size
\* above zero.
C4_FifoWithinLevel ==
    [][last'.op = "PlaceMarketOrder" =>
         \A l \in SliceLimits(World) :
            \A a \in Range(limits[l].Orders) : \A b \in Range(limits[l].Orders) :
               (orders[a].ID < orders[b].ID /\ orders'[b].Size < orders[b].Size)
                  => orders'[a].Size = 0
      ]_vars

\* C5: an accepted market order ends with residual size 0, its matches add up
\* to its original size, the opposing side's total volume drops by exactly
\* that size and the total volume of its own side stays as it was.
C5_AllOrNothing ==
    [][(last'.op = "PlaceMarketOrder" /\ last'.err = Nil) =>
         /\ orders'[last'.order].Size = 0
         /\ SumFilled(last'.matches, 1) = last'.size
         /\ SideVolume(WorldNext, last'.market, Opposing(last'.placement))
               = SideVolume(World, last'.market, Opposing(last'.placement)) - last'.size
         /\ SideVolume(WorldNext, last'.market, Opposing(Opposing(last'.placement)))
               = SideVolume(World, last'.market, Opposing(Opposing(last'.placement)))
      ]_vars

\* C5 witness: an accepted market order matched on two price levels and left
\* the last order it matched resting with part of its size.
C5_Witness ==
    /\ MarketAcceptedLast
    /\ Cardinality({last.matches[i].Price : i \in 1..Len(last.matches)}) >= 2
    /\ RestingOf(last.matches[Len(last.matches)]) \in Resting(World)
    /\ orders[RestingOf(last.matches[Len(last.matches)])].Size > 0
    /\ last.matches[Len(last.matches)].SizeFilled > 0

\* On one side of a book: no Limit is listed twice in the slice, no two Limits
\* of the slice share a price, and the price map holds exactly the Limits of
\* the slice, each under its own price.
SideConsistent(w, mk, side) ==
    LET s == SideSlice(w, mk, side)
        m == SideMap(w, mk, side)
    IN  /\ \A i \in 1..Len(s) : \A j \in 1..Len(s) :
              i # j => s[i] # s[j] /\ w.limits[s[i]].Price # w.limits[s[j]].Price
        /\ \A x \in DOMAIN m : m[x] \in Range(s) /\ w.limits[m[x]].Price = x
        /\ \A l \in Range(s) : w.limits[l].Price \in DOMAIN m /\ m[w.limits[l].Price] = l

\* C6: after every call, each side of each book satisfies SideConsistent; and
\* a successful PlaceLimitOrder at a price present on the order's side appends
\* the order to that price's Limit and creates none, while at an absent price
\* it creates exactly one Limit, holding just that order.
C6_PriceUniqueness ==
    [][/\ \A mk \in DOMAIN orderBooks' : \A side \in {BID_ORDER, ASK_ORDER} :
             SideConsistent(WorldNext, mk, side)
       /\ (last'.op = "PlaceLimitOrder" /\ last'.err = Nil) =>
             /\ SideSlice(WorldNext, last'.market, Opposing(last'.placement))
                   = SideSlice(World, last'.market, Opposing(last'.placement))
             /\ IF last'.price \in DOMAIN SideMap(World, last'.market, last'.placement)
                THEN /\ SideSlice(WorldNext, last'.market, last'.placement)
                           = SideSlice(World, last'.market, last'.placement)
                     /\ limits'[SideMap(World, last'.market, last'.placement)[last'.price]].Orders
                           = Append(limits[SideMap(World, last'.market, last'.placement)[last'.price]].Orders,
                                    last'.order)
                ELSE \E l \in (DOMAIN limits') \ BookLimits(World) :
                        /\ SideSlice(WorldNext, last'.market, last'.placement)
                              = Append(SideSlice(World, last'.market, last'.placement), l)
                        /\ limits'[l].Orders = <<last'.order>>
                        /\ limits'[l].Price = last'.price
      ]_vars

\* C6 witness: a limit order joined an existing Limit on a side holding another
\* Limit as well.
C6_Witness ==
    /\ last.op = "PlaceLimitOrder" /\ last.err = Nil
    /\ Len(SideSlice(World, last.market, last.placement)) >= 2
    /\ Len(limits[orders[last.order].Limit].Orders) >= 2

\* C7: after every call, every Limit in a slice or a price map of a book holds
\* at least one order and has TotalVolume above zero; and a Limit that a call
\* removed from the book holds no orders.
C7_NoEmptyLevel ==
    [][/\ \A l \in BookLimits(WorldNext) :
             Len(limits'[l].Orders) >= 1 /\ limits'[l].TotalVolume > 0
       /\ \A l \in BookLimits(World) \ BookLimits(WorldNext) :
             l \in DOMAIN limits' => limits'[l].Orders = <<>>
      ]_vars

\* C8: every id in OrderIndex is the id of an order resting in a Limit of some
\* book.
C8_IndexOnlyResting ==
    \A id \in DOMAIN OrderIndex : OrderIndex[id].Order \in Resting(World)

\* C9: every order resting in a Limit of a book has an OrderIndex entry under
\* its id, and the entry references that order and that book's market name.
C9_RestingIndexed ==
    \A mk \in DOMAIN orderBooks : \A side \in {BID_ORDER, ASK_ORDER} :
       \A l \in Range(SideSlice(World, mk, side)) : \A o \in Range(limits[l].Orders) :
          /\ orders[o].ID \in DOMAIN OrderIndex
          /\ OrderIndex[orders[o].ID].Order = o
          /\ OrderIndex[orders[o].ID].Market = orderBooks[mk].Market

\* C9 witness: orders rest in each of two books after a cancellation removed
\* another order.
C9_Witness ==
    /\ last.op = "CancelOrderByID" /\ last.err = Nil
    /\ Cardinality(DOMAIN orderBooks) = 2
    /\ \A mk \in DOMAIN orderBooks :
          \E side \in {BID_ORDER, ASK_ORDER} : SideSlice(World, mk, side) # <<>>

\* An order with the given id rests in a Limit of the given side of book mk.
RestsOn(w, mk, side, orderId) ==
    \E l \in Range(SideSlice(w, mk, side)) : \E o \in Range(w.limits[l].Orders) :
       w.orders[o].ID = orderId

\* C10: CancelOrderByID(id, side) on a book returns ErrNotFound exactly when no
\* Limit of that side of that book holds an order with that id, and then the
\* books, the Limits, the orders and OrderIndex are as they were.
C10_CancelNotFound ==
    \A mk \in DOMAIN orderBooks : \A orderId \in 1..MaxOrders :
       \A side \in {BID_ORDER, ASK_ORDER} :
          /\ CancelOrderByID(World, mk, orderId, side).err \in {Nil, ErrNotFound}
          /\ (CancelOrderByID(World, mk, orderId, side).err = ErrNotFound)
                <=> ~RestsOn(World, mk, side, orderId)
          /\ CancelOrderByID(World, mk, orderId, side).err = ErrNotFound
                => CancelOrderByID(World, mk, orderId, side).w = World

\* C10 witness: a cancellation returned ErrNotFound while its book pair held an
\* order on each side of one book or in each of two books, and OrderIndex still
\* held the id of an order that was filled.
C10_Witness ==
    /\ last.op = "CancelOrderByID" /\ last.err = ErrNotFound
    /\ Resting(World) # {}
    /\ \/ Cardinality(DOMAIN orderBooks) = 2
       \/ \E id \in DOMAIN OrderIndex : OrderIndex[id].Order \notin Resting(World)

\* The queue q without the order x, the others in the order they had.
Without(q, x) == SelectSeq(q, LAMBDA y : y # x)

\* The Limits of a book that hold the order o in their queue.
HoldersNext(o) == {l \in DOMAIN limits' : o \in Range(limits'[l].Orders)}

\* The step removed the resting order o and nothing else: afterwards o is in
\* no Limit's queue and OrderIndex is what it was less o's id; o's Limit has
\* lost o's residual size and, if o was its only order, has left the book; its
\* other orders keep their relative queue order; every other resting order
\* keeps its size and its Limit, and every other Limit of the book is unchanged
\* and still in the book.
RemovedExactly(o) ==
    /\ HoldersNext(o) = {}
    /\ OrderIndex' = MapDelete(OrderIndex, orders[o].ID)
    /\ orders[o].ID \in DOMAIN OrderIndex
    /\ Range(limits[orders[o].Limit].Orders) = {o}
          => orders[o].Limit \notin BookLimits(WorldNext)
    /\ orders[o].Limit \in DOMAIN limits' =>
          /\ limits'[orders[o].Limit].TotalVolume
                = limits[orders[o].Limit].TotalVolume - orders[o].Size
          /\ limits'[orders[o].Limit].Orders
                = Without(limits[orders[o].Limit].Orders, o)
    /\ \A o2 \in Resting(World) \ {o} :
          /\ orders'[o2] = orders[o2]
          /\ o2 \in Range(limits'[orders[o2].Limit].Orders)
    /\ \A l2 \in BookLimits(World) \ {orders[o].Limit} :
          l2 \in BookLimits(WorldNext) /\ limits'[l2] = limits[l2]
    /\ BookLimits(WorldNext) \subseteq BookLimits(World)

\* C11: a successful CancelOrderByID removes exactly one resting order, in the
\* sense of RemovedExactly.
C11_CancelRemovesExactlyOne ==
    [][(last'.op = "CancelOrderByID" /\ last'.err = Nil) =>
         \E o \in Resting(World) : RemovedExactly(o)
      ]_vars

\* Book mk holds no Limit on either side and has zero volume on both.
BookEmpty(w, mk) ==
    /\ w.orderBooks[mk].asks = <<>> /\ w.orderBooks[mk].bids = <<>>
    /\ w.orderBooks[mk].AskLimits = <<>> /\ w.orderBooks[mk].BidLimits = <<>>
    /\ AskTotalVolume(w, mk) = 0 /\ BidTotalVolume(w, mk) = 0

\* C12: when limit orders are placed and then cancelled, each by its id on its
\* own book and side (no market order in between), every cancel of an order not
\* cancelled before succeeds, and once all the orders placed are cancelled
\* every book is empty.
C12_CancelThenEmpty ==
    [][last'.op = "handleCancelOrder" =>
         /\ last'.err = Nil
         /\ OrderIndex' = <<>> => \A mk \in DOMAIN orderBooks' : BookEmpty(WorldNext, mk)
      ]_vars

\* Handler h is inside PlaceLimitOrder or PlaceMarketOrder: the call has read
\* the book and has not yet made its writes.
InCall(h) == handlers[h].pc \in {"PlaceLimitAdd", "PlaceMarketSweep"}

\* C13: no two handlers are inside a call on the same book at the same time:
\* a call on a book runs from its first step to its last with no step of
\* another call on that book in between.
C13_ExclusiveSection ==
    \A h1 \in 1..MaxHandlers : \A h2 \in 1..MaxHandlers :
       (h1 # h2 /\ InCall(h1) /\ InCall(h2))
          => handlers[h1].market # handlers[h2].market

\* C14: PlaceLimitOrder with a placement that is neither BID nor ASK returns
\* the invalid-placement error and mutates nothing: the books, their Limits,
\* the resting orders and OrderIndex are as they were, no Limit was created,
\* the order has no Limit and its id is not in OrderIndex.
C14_InvalidPlacement ==
    [][(last'.op = "PlaceLimitOrder" /\ last'.placement \notin {BID_ORDER, ASK_ORDER}) =>
         /\ last'.err = ErrInvalidPlacement
         /\ Visible(WorldNext) = Visible(World)
         /\ DOMAIN limits' \subseteq DOMAIN limits
         /\ orders'[last'.order].Limit = 0
         /\ HoldersNext(last'.order) = {}
         /\ last'.orderId \notin DOMAIN OrderIndex'
      ]_vars

\* C14 witness: a limit order with an unrecognised placement was rejected at a
\* price at which the ask side holds a Limit.
C14_Witness ==
    /\ last.op = "PlaceLimitOrder"
    /\ last.placement = OTHER_ORDER
    /\ last.err = ErrInvalidPlacement
    /\ last.price \in DOMAIN orderBooks[last.market].AskLimits

\* C15: the ids of the orders NewOrder created are pairwise different and
\* increase in the order of creation (handlers running together keep every
\* Order they created, at addresses that increase in the order of creation).
C15_UniqueIncreasingIds ==
    \A a \in DOMAIN orders : \A b \in DOMAIN orders :
       a < b => orders[a].ID < orders[b].ID

\* The resting order and the incoming order of a match of a market order with
\* the given placement: a market bid is the Bid, any other market order the Ask.
RestingIn(m, placement) == IF placement = BID_ORDER THEN m.Ask ELSE m.Bid

IncomingIn(m, placement) == IF placement = BID_ORDER THEN m.Bid ELSE m.Ask

\* What the first n matches filled.
FilledBefore(matches, n) == SumFilled(SubSeq(matches, 1, n), 1)

\* What the matches filled of the orders resting in Limit l before the call.
RECURSIVE FilledIn(_, _, _, _)
FilledIn(matches, placement, l, i) ==
    IF i > Len(matches) THEN 0
    ELSE (IF orders[RestingIn(matches[i], placement)].Limit = l
          THEN matches[i].SizeFilled ELSE 0)
         + FilledIn(matches, placement, l, i + 1)

\* C16: each match of a market order is one trade between the incoming order
\* and one order that rested on the opposing side, each resting order trading
\* at most once: the incoming order is the Bid of a market bid's matches and
\* the Ask of the others, SizeFilled is the minimum of the two residual sizes
\* before the trade, the resting order's size, the incoming order's size and
\* the Limit's TotalVolume drop by what was filled, and Price is the price of
\* the resting order's Limit.
C16_MatchRecord ==
    [][last'.op = "PlaceMarketOrder" =>
         /\ \A i \in 1..Len(last'.matches) :
               /\ IncomingIn(last'.matches[i], last'.placement) = last'.order
               /\ RestingIn(last'.matches[i], last'.placement) \in Resting(World)
               /\ orders[RestingIn(last'.matches[i], last'.placement)].Limit
                     \in Range(SideSlice(World, last'.market, Opposing(last'.placement)))
               /\ last'.matches[i].SizeFilled
                     = min(orders[RestingIn(last'.matches[i], last'.placement)].Size,
                           last'.size - FilledBefore(last'.matches, i - 1))
               /\ orders'[RestingIn(last'.matches[i], last'.placement)].Size
                     = orders[RestingIn(last'.matches[i], last'.placement)].Size
                          - last'.matches[i].SizeFilled
               /\ last'.matches[i].Price
                     = limits[orders[RestingIn(last'.matches[i], last'.placement)].Limit].Price
               /\ \A j \in 1..Len(last'.matches) :
                     i # j => RestingIn(last'.matches[i], last'.placement)
                                 # RestingIn(last'.matches[j], last'.placement)
         /\ orders'[last'.order].Size
               = last'.size - FilledBefore(last'.matches, Len(last'.matches))
         /\ \A l \in BookLimits(World) \cap DOMAIN limits' :
               limits'[l].TotalVolume
                  = limits[l].TotalVolume - FilledIn(last'.matches, last'.placement, l, 1)
      ]_vars

\* C16 witness: a market order traded with two orders of one Limit, the second
\* of which keeps part of its size and rests in the Limit.
C16_Witness ==
    /\ MarketAcceptedLast
    /\ Len(last.matches) >= 2
    /\ last.matches[Len(last.matches)].Price = last.matches[Len(last.matches) - 1].Price
    /\ last.matches[Len(last.matches)].SizeFilled > 0
    /\ last.matches[Len(last.matches) - 1].SizeFilled > 0
    /\ RestingOf(last.matches[Len(last.matches)]) \in Resting(World)
    /\ orders[RestingOf(last.matches[Len(last.matches)])].Size > 0

\* C17: the error of a rejected market order carries the requested size and
\* the opposing side's total volume (errAsks and errBids are the two numbers
\* its message prints after "asks:" and "bids:"): for a market bid the ask
\* total volume and the order's size, for any other market order the order's
\* size and the bid total volume.
C17_RejectionReport ==
    [][(last'.op = "PlaceMarketOrder" /\ last'.err # Nil) =>
         IF last'.placement = BID_ORDER
         THEN /\ last'.err = ErrNotEnoughAsk
              /\ last'.errAsks = AskTotalVolume(World, last'.market)
              /\ last'.errBids = last'.size
         ELSE /\ last'.err = ErrNotEnoughBid
              /\ last'.errAsks = last'.size
              /\ last'.errBids = BidTotalVolume(World, last'.market)
      ]_vars

\* C17 witness: a market ask was rejected against a bid side that holds volume,
\* less than the size requested.
C17_Witness ==
    /\ last.op = "PlaceMarketOrder"
    /\ last.err = ErrNotEnoughBid
    /\ last.errBids > 0
    /\ last.errAsks > last.errBids
    /\ last.errBids = BidTotalVolume(World, last.market)

\* The Limits of slice s are in strictly ascending order of price.
PricesAscending(w, s) ==
    \A i \in 1..Len(s) : \A j \in 1..Len(s) :
       i < j => w.limits[s[i]].Price < w.limits[s[j]].Price

\* The Limits of slice s are in strictly descending order of price.
PricesDescending(w, s) ==
    \A i \in 1..Len(s) : \A j \in 1..Len(s) :
       i < j => w.limits[s[i]].Price > w.limits[s[j]].Price

\* Slice s2 holds the Limits of slice s1, each once, in some order.
Permutation(s1, s2) ==
    /\ Len(s1) = Len(s2)
    /\ Range(s1) = Range(s2)
    /\ \A i \in 1..Len(s2) : \A j \in 1..Len(s2) : i # j => s2[i] # s2[j]

\* C18: after Asks() and Bids() the ask slice is in strictly ascending and the
\* bid slice in strictly descending order of price, each is a permutation of
\* what the side held, and the book's Limits, the resting orders, the price
\* maps, OrderIndex and the other books are as they were.
C18_SortedViews ==
    [][last'.op = "handleGetBook" =>
         /\ PricesAscending(WorldNext, orderBooks'[last'.market].asks)
         /\ PricesDescending(WorldNext, orderBooks'[last'.market].bids)
         /\ Permutation(orderBooks[last'.market].asks, orderBooks'[last'.market].asks)
         /\ Permutation(orderBooks[last'.market].bids, orderBooks'[last'.market].bids)
         /\ \A l \in BookLimits(World) : limits'[l] = limits[l]
         /\ \A o \in Resting(World) : orders'[o] = orders[o]
         /\ OrderIndex' = OrderIndex
         /\ orderBooks'[last'.market].AskLimits = orderBooks[last'.market].AskLimits
         /\ orderBooks'[last'.market].BidLimits = orderBooks[last'.market].BidLimits
         /\ \A mk \in DOMAIN orderBooks : mk # last'.market => orderBooks'[mk] = orderBooks[mk]
      ]_vars

\* C18 witness: the book was read while one side held three Limits.
C18_Witness ==
    /\ last.op = "handleGetBook"
    /\ \/ Len(orderBooks[last.market].asks) >= 3
       \/ Len(orderBooks[last.market].bids) >= 3

\* C19: DeleteOrder called on a Limit with an order that is not in its queue
\* leaves the Limit (its queue and its TotalVolume) and the order as they were.
C19_DeleteAbsentNoOp ==
    [][last'.op = "DeleteOrder" =>
         /\ limits'[SideMap(World, last'.market, last'.placement)[last'.price]]
               = limits[SideMap(World, last'.market, last'.placement)[last'.price]]
         /\ orders'[last'.order] = orders[last'.order]
      ]_vars

\* C20: a market order is rejected exactly when its size is strictly greater
\* than the opposing side's total volume; one whose size equals that volume is
\* accepted, ends with residual size 0 and leaves the opposing side with no
\* Limit in its slice, zero total volume and an empty price map.
C20_AdmissionBoundary ==
    [][last'.op = "PlaceMarketOrder" =>
         /\ last'.err # Nil
               <=> last'.size > SideVolume(World, last'.market, Opposing(last'.placement))
         /\ last'.size = SideVolume(World, last'.market, Opposing(last'.placement)) =>
               /\ last'.err = Nil
               /\ orders'[last'.order].Size = 0
               /\ SideSlice(WorldNext, last'.market, Opposing(last'.placement)) = <<>>
               /\ SideVolume(WorldNext, last'.market, Opposing(last'.placement)) = 0
               /\ SideMap(WorldNext, last'.market, Opposing(last'.placement)) = <<>>
      ]_vars

\* The Limits whose queue holds the order o.
Holders(w, o) == {l \in DOMAIN w.limits : o \in Range(w.limits[l].Orders)}

\* How many slots of queue q hold the order o.
Occurrences(q, o) == Cardinality({i \in 1..Len(q) : q[i] = o})

\* C21: every order is in the queue of at most one Limit and at most once; its
\* Limit back-reference is set exactly when it is in the queue of a Limit that
\* is in a book, and then is that Limit; an order a market order filled
\* completely has no back-reference.
C21_OrderOwnership ==
    /\ \A o \in DOMAIN orders :
          /\ Cardinality(Holders(World, o)) <= 1
          /\ \A l \in Holders(World, o) : Occurrences(limits[l].Orders, o) = 1
          /\ orders[o].Limit # 0 <=> o \in Resting(World)
          /\ orders[o].Limit # 0 =>
                /\ orders[o].Limit \in SliceLimits(World)
                /\ o \in Range(limits[orders[o].Limit].Orders)
    /\ \A i \in 1..Len(last.matches) :
          orders[RestingOf(last.matches[i])].Size = 0
             => orders[RestingOf(last.matches[i])].Limit = 0

\* C22: no call makes an order's Size negative or larger than it was, and a
\* resting order that a market order matched and that has Size 0 when
\* PlaceMarketOrder returns is in no Limit's queue and does not rest in a book.
C22_ResidualSize ==
    [][/\ \A o \in DOMAIN orders' : orders'[o].Size >= 0
       /\ \A o \in (DOMAIN orders) \cap (DOMAIN orders') :
             orders'[o].Size <= orders[o].Size
       /\ last'.op = "PlaceMarketOrder" =>
             /\ \A i \in 1..Len(last'.matches) :
                   orders'[RestingIn(last'.matches[i], last'.placement)].Size = 0
                      => HoldersNext(RestingIn(last'.matches[i], last'.placement)) = {}
             /\ \A o \in Resting(World) :
                   (orders[o].Size > 0 /\ orders'[o].Size = 0)
                      => o \notin Resting(WorldNext)
      ]_vars

\* C22 witness: a market order reduced a resting order from a size above zero
\* to zero, and the Limit it rested in is still in the book with other orders.
C22_Witness ==
    /\ MarketAcceptedLast
    /\ \E i \in 1..Len(last.matches) : \E l \in SliceLimits(World) :
          /\ last.matches[i].SizeFilled > 0
          /\ orders[RestingOf(last.matches[i])].Size = 0
          /\ limits[l].Price = last.matches[i].Price
          /\ limits[l].Orders # <<>>

\* C23: with handlers running together, a market order answered as placed has
\* residual size 0, and one answered with an error has traded nothing: it has
\* no matches and its full size.
C23_ConcurrentMarketFill ==
    last.op = "PlaceMarketOrder" =>
       IF last.err = Nil
       THEN orders[last.order].Size = 0
       ELSE last.matches = <<>> /\ orders[last.order].Size = last.size

\* A bid at price a and an ask at price b cross: the bid pays at least what the
\* ask wants.
Crossed(w, mk) ==
    \E b \in Range(w.orderBooks[mk].bids) : \E a \in Range(w.orderBooks[mk].asks) :
       w.limits[b].Price >= w.limits[a].Price

\* C24: a successful PlaceLimitOrder executes no trade.  It returns no match;
\* every order that rested keeps its size, its Limit and its other fields; the
\* opposite side's slice, price map and Limits, the other Limits of the order's
\* own side and the other books are as they were; the Limit at the order's
\* price gains the order at the end of its queue and the order's size in
\* TotalVolume; the order keeps its whole size.  This holds also when the
\* order's price crosses the opposite side's best price.
C24_LimitNeverTrades ==
    [][(last'.op = "PlaceLimitOrder" /\ last'.err = Nil) =>
         /\ last'.matches = <<>>
         /\ \A o \in Resting(World) : orders'[o] = orders[o]
         /\ orders'[last'.order].Size = last'.size
         /\ SideSlice(WorldNext, last'.market, Opposing(last'.placement))
               = SideSlice(World, last'.market, Opposing(last'.placement))
         /\ SideMap(WorldNext, last'.market, Opposing(last'.placement))
               = SideMap(World, last'.market, Opposing(last'.placement))
         /\ \A l \in BookLimits(World) :
               IF l = MapGet(SideMap(World, last'.market, last'.placement), last'.price)
               THEN /\ limits'[l].Orders = Append(limits[l].Orders, last'.order)
                    /\ limits'[l].TotalVolume = limits[l].TotalVolume + last'.size
                    /\ limits'[l].Price = limits[l].Price
               ELSE limits'[l] = limits[l]
         /\ orders'[last'.order].Limit
               = SideMap(WorldNext, last'.market, last'.placement)[last'.price]
         /\ \A mk \in DOMAIN orderBooks : mk # last'.market => orderBooks'[mk] = orderBooks[mk]
      ]_vars

\* C24 witness: a bid of size above zero was placed at a price at or above the
\* price of an ask of size above zero that rests in the book, and both rest.
C24_Witness ==
    /\ last.op = "PlaceLimitOrder" /\ last.err = Nil
    /\ last.placement = BID_ORDER
    /\ last.size > 0
    /\ Crossed(World, last.market)
    /\ \E a \in Range(orderBooks[last.market].asks) :
          /\ limits[a].Price <= last.price
          /\ limits[a].TotalVolume > 0
    /\ last.order \in Resting(World)

\* C25: every match an accepted market order returns has SizeFilled above
\* zero, and an accepted market order placed while the opposing side holds a
\* Limit returns at least one match.
C25_PositiveMatches ==
    [][(last'.op = "PlaceMarketOrder" /\ last'.err = Nil) =>
         /\ \A i \in 1..Len(last'.matches) : last'.matches[i].SizeFilled > 0
         /\ SideSlice(World, last'.market, Opposing(last'.placement)) # <<>>
               => Len(last'.matches) >= 1
      ]_vars

====
